---- MODULE Spec2Model ----
(***************************************************************************)
(* Model of the mmdeploy function-rewriting engine:                        *)
(*   RewriterRegistry, the Checkers and ContextCaller                      *)
(*     (deployment/core/rewriters/rewriter_utils.py)                       *)
(*   FunctionRewriter and the live-graph writers _set_func, _del_func,     *)
(*   _replace_all_obj (deployment/core/rewriters/function_rewriter.py)     *)
(***************************************************************************)
EXTENDS Integers, Sequences, FiniteSets, TLC

(* ------------------------------ bounds --------------------------------- *)
MaxDecorators == 2
MaxRecords == 4
MaxEnters == 2
MaxWrapped == 2
MaxSessionRecords == 2
MaxRemoveRecords == 3

(* --------------------------- objects and paths ------------------------- *)
\* A function object.  Originals and registered payloads have gen = 0; the
\* copy made by copy_function in the n-th enter for a path has gen = n.
Fn(name) == [of |-> name, path |-> "", gen |-> 0]

Absent == Fn("<absent>")

\* copy_function(f): a new function object, distinct from f and from the
\* copies made for other paths or in other sessions.
copy_function(payload, path, gen) == [of |-> payload, path |-> path, gen |-> gen]

\* get_func_qualname: '<module>.<qualname>'; update_wrapper gives a copy the
\* module and qualname of the payload it was copied from.
get_func_qualname(obj) ==
    CASE obj.of = "r1" -> "rw.r1"
      [] obj.of = "r2" -> "rw.r2"
      [] obj.of = "F" -> "mod.f"
      [] obj.of = "G" -> "mod.g"
      [] obj.of = "M" -> "Base.m"
      [] obj.of = "DM" -> "Derived.m"
      [] obj.of = "X" -> "Frozen.m"
      [] OTHER -> "<unknown>"

\* f.__globals__: the payloads live in one rewriter module, every copy has
\* a globals dictionary of its own (copy_function lines 454, 464).
Globals(obj) == IF obj.gen = 0 THEN Fn("rw") ELSE obj

\* The dotted paths known to the model.  "mod.f" and "mod.g" are
\* module-level functions, "Base.m" is a method in Base's own dictionary,
\* "Derived.m" is a method of a subclass of Base, "Frozen.m" is a method of
\* a class that rejects attribute assignment (a built-in or extension type),
\* "mod.missing" names nothing.
AllPaths == {"mod.f", "mod.g", "Base.m", "Derived.m", "Frozen.m", "mod.missing"}

Payloads == {"r1", "r2"}

\* a registered callable that is not a function (an object with __call__):
\* it has no __globals__ and no __code__, copy_function (line 454) raises
\* AttributeError on it
NotAFunction == "c1"

IsFunction(payload) == payload # NotAFunction

\* _set_func line 80: the path's parent is a class
IsClassPath(path) == path \in {"Base.m", "Derived.m", "Frozen.m"}

\* _set_func line 89: the assignment to the path succeeds; it raises
\* TypeError when the path's class rejects attribute assignment
Writable(path) == path # "Frozen.m"

\* Containers of other code that hold functions: a list, a tuple, a
\* dictionary with an entry under the key k and one under the key
\* origin_func, and a list that holds the method Base.m.  Each slot is
\* named by the expression that reads it.
HolderSlots == {"holder_list[0]", "holder_tuple[0]", "holder_dict['k']",
                "holder_dict['origin_func']", "method_list[0]"}

\* the slots of the live graph that can refer to a function: the
\* namespace entries at the paths and the slots of the holders
Slots == AllPaths \cup HolderSlots

\* the kind of container a slot belongs to (a module or class namespace is
\* a dictionary)
ContainerOf(slot) ==
    CASE slot \in {"holder_list[0]", "method_list[0]"} -> "list"
      [] slot = "holder_tuple[0]" -> "tuple"
      [] OTHER -> "dict"

\* the key of a dictionary slot
SlotKey(slot) ==
    CASE slot = "holder_dict['origin_func']" -> "origin_func"
      [] slot = "holder_dict['k']" -> "k"
      [] OTHER -> slot

\* eval(path) on the live graph: own attribute first, then the base class.
EvalPath(g, path) ==
    IF g[path] # Absent THEN g[path]
    ELSE IF path = "Derived.m" THEN g["Base.m"]
    ELSE Absent

(* ------------------------------ environment ---------------------------- *)
Missing == "<missing>"

BackendTokens == {"default", "tensorrt", "onnxruntime"}

IRs == {"default", "onnx", "torchscript"}

\* Backend.get(token): the enum member, or an error for an unknown token
BackendGet(token) == IF token \in BackendTokens THEN token ELSE "<KeyError>"

NoEnv == [backend |-> Missing, ir |-> Missing]

\* the environments of collect_env: both keys present
FullEnvs == [backend : {"tensorrt", "onnxruntime"}, ir : {"onnx", "torchscript"}]

(* ------------------------------- checkers ------------------------------ *)
\* BackendChecker.check / IRChecker.check: env[key] == required, KeyError
\* when the key is not in env.
CheckerCheck(c, env) ==
    IF c.kind = "backend"
    THEN (IF env.backend = Missing THEN "KeyError"
          ELSE IF env.backend = c.required THEN "true" ELSE "false")
    ELSE (IF env.ir = Missing THEN "KeyError"
          ELSE IF env.ir = c.required THEN "true" ELSE "false")

\* get_records lines 248-252: all checks must pass, stop at the first that
\* fails; an exception of a check propagates.
RECURSIVE CheckAllFrom(_, _, _)
CheckAllFrom(checkers, env, i) ==
    IF i > Len(checkers) THEN "true"
    ELSE LET r == CheckerCheck(checkers[i], env)
         IN IF r = "true" THEN CheckAllFrom(checkers, env, i + 1) ELSE r

\* a resolution that accepts a candidate as soon as one checker passes
CheckAny(checkers, env) ==
    IF \E j \in 1..Len(checkers) : CheckerCheck(checkers[j], env) = "KeyError"
    THEN "KeyError"
    ELSE IF \E j \in 1..Len(checkers) : CheckerCheck(checkers[j], env) = "true"
    THEN "true" ELSE "false"

CheckAll(checkers, env) == CheckAllFrom(checkers, env, 1)

(* --------------------------- version checker --------------------------- *)
\* A version string is the sequence of its characters.
V_1_7_9 == <<"1", ".", "7", ".", "9">>

V_1_8_0 == <<"1", ".", "8", ".", "0">>

V_1_9 == <<"1", ".", "9">>

V_1_9_0 == <<"1", ".", "9", ".", "0">>

V_1_10 == <<"1", ".", "1", "0">>

V_1_10_0 == <<"1", ".", "1", "0", ".", "0">>

V_1_10_0_1 == <<"1", ".", "1", "0", ".", "0", ".", "1">>

V_1_11_0 == <<"1", ".", "1", "1", ".", "0">>

V_2 == <<"2">>

VersionStrings ==
    {V_1_7_9, V_1_8_0, V_1_9, V_1_9_0, V_1_10, V_1_10_0, V_1_10_0_1,
     V_1_11_0, V_2}

\* None: the library is reported as not installed; an omitted bound
NoneValue == <<"None">>

\* the library's name is not a key of env
KeyMissing == <<Missing>>

DigitValue(c) ==
    CASE c = "0" -> 0 [] c = "1" -> 1 [] c = "2" -> 2 [] c = "3" -> 3
      [] c = "4" -> 4 [] c = "5" -> 5 [] c = "6" -> 6 [] c = "7" -> 7
      [] c = "8" -> 8 [] c = "9" -> 9

\* the code point of a character of a version string
CharCode(c) == IF c = "." THEN 46 ELSE 48 + DigitValue(c)

\* version.parse of a dotted release: the numbers between the dots
RECURSIVE ParseFrom(_, _, _, _)
ParseFrom(str, i, cur, acc) ==
    IF i > Len(str) THEN Append(acc, cur)
    ELSE IF str[i] = "." THEN ParseFrom(str, i + 1, 0, Append(acc, cur))
    ELSE ParseFrom(str, i + 1, cur * 10 + DigitValue(str[i]), acc)

VersionParse(str) == ParseFrom(str, 1, 0, <<>>)

\* the order of parsed releases: number by number, a release that is
\* shorter counts as continued with zeros
Component(r, i) == IF i <= Len(r) THEN r[i] ELSE 0

RECURSIVE ReleaseLess(_, _, _)
ReleaseLess(a, b, i) ==
    IF i > Len(a) /\ i > Len(b) THEN FALSE
    ELSE IF Component(a, i) < Component(b, i) THEN TRUE
    ELSE IF Component(a, i) > Component(b, i) THEN FALSE
    ELSE ReleaseLess(a, b, i + 1)

\* a comparison of the version strings themselves, character by character
RECURSIVE StringLessFrom(_, _, _)
StringLessFrom(x, y, i) ==
    IF i > Len(y) THEN FALSE
    ELSE IF i > Len(x) THEN TRUE
    ELSE IF CharCode(x[i]) < CharCode(y[i]) THEN TRUE
    ELSE IF CharCode(x[i]) > CharCode(y[i]) THEN FALSE
    ELSE StringLessFrom(x, y, i + 1)

StringLess(x, y) == StringLessFrom(x, y, 1)

\* version.parse(x) < version.parse(y), lines 177 and 180
VersionLess(x, y) == ReleaseLess(VersionParse(x), VersionParse(y), 1)

\* LibVersionChecker.check(env), lines 163-183; reported is env[self.lib]
LibVersionCheck(c, reported) ==
    IF reported = KeyMissing THEN "KeyError"
    ELSE IF reported = NoneValue THEN "false"
    ELSE IF c.min_version # NoneValue /\ VersionLess(reported, c.min_version)
    THEN "false"
    ELSE IF c.max_version # NoneValue /\ VersionLess(c.max_version, reported)
    THEN "false"
    ELSE "true"

(* ------------------------------- metadata ------------------------------ *)
\* Keyword arguments: a dictionary over the names MetaNames, NoValue for a
\* name that is not in it.
MetaNames == {"k1", "k2"}

NoValue == "<unset>"

NoKwargs == [n \in MetaNames |-> NoValue]

\* dict.update: the entries of other are written over those of base
DictUpdate(base, other) ==
    [n \in MetaNames |-> IF other[n] # NoValue THEN other[n] ELSE base[n]]

\* a merge in which the keyword arguments of enter are written last
CallTimeOnTop(kwargs, record_kwargs) == DictUpdate(record_kwargs, kwargs)

\* enter lines 220-221: extra_kwargs = kwargs.copy();
\* extra_kwargs.update(record_dict)
ExtraKwargs(kwargs, record_kwargs) == DictUpdate(kwargs, record_kwargs)

(* ------------------------------- variables ----------------------------- *)
VARIABLES
    decorators,           \* closures returned by register_object
    checker_lists,        \* heap of the extra_checkers list objects
    rewrite_records,      \* RewriterRegistry._rewrite_records: path -> records
    record_keys,          \* insertion order of the keys of _rewrite_records
    graph,                \* the live graph: own attribute at each path,
                          \* and the slots of the holder containers
    wrapped_fns_to_patch, \* torch.fx tracing allowlist
    func_contexts,        \* FunctionRewriter._func_contexts: key -> ctx ids
    callers,              \* heap of the ContextCaller objects of the session
    origin_functions,     \* FunctionRewriter._origin_functions
    additional_functions, \* FunctionRewriter._additional_functions
    ori_fx_wrap_num,      \* FunctionRewriter._ori_fx_wrap_num (Unset before)
    enter_count,          \* number of enter calls so far
    lifecycle,            \* Inactive / Active / Broken (enter raised)
    pre_graph,            \* the graph when the latest enter was called
    enter_wrapped,        \* the allowlist when the latest enter was called
                          \* (before) and when it returned (after)
    session,              \* what the latest enter resolved, per path
    last                  \* the latest call: inputs, result, warnings

registry_vars == <<decorators, checker_lists, rewrite_records, record_keys>>

session_vars == <<func_contexts, callers, origin_functions,
                  additional_functions, ori_fx_wrap_num, enter_count,
                  lifecycle, pre_graph, enter_wrapped, session>>

vars == <<decorators, checker_lists, rewrite_records, record_keys, graph,
          wrapped_fns_to_patch, func_contexts, callers, origin_functions,
          additional_functions, ori_fx_wrap_num, enter_count, lifecycle,
          pre_graph, enter_wrapped, session, last>>

Unset == -1

ContextKeys == AllPaths \cup {"rw.r1", "rw.r2", "no.such.key"}

NoCall == [op |-> "none", raised |-> "", from |-> "Inactive", env |-> NoEnv,
           records |-> <<>>, warnings |-> <<>>, key |-> "",
           caller |-> Absent, ctx |-> 0, before |-> <<>>,
           kwargs |-> NoKwargs, result |-> Absent,
           callee |-> Absent, args |-> <<>>, received |-> <<>>,
           checker |-> <<>>, reported |-> <<>>, valid |-> "",
           table |-> <<>>, keys |-> <<>>, filter |-> ""]

(* ------------------------------- registry ------------------------------ *)
RECURSIVE CountRecords(_, _, _)
CountRecords(recs, keys, k) ==
    IF k = 0 THEN 0 ELSE Len(recs[keys[k]]) + CountRecords(recs, keys, k - 1)

TotalRecords == CountRecords(rewrite_records, record_keys, Len(record_keys))

\* register_object (lines 317-329): normalise extra_checkers (None gives a
\* new empty list, extra_checkers is the content of the list), convert the
\* backend token, return the decorator, which closes over kwargs.  The
\* decorator refers to the list object (extra_checkers); supplied keeps
\* what the list held when it was passed.
register_object(name, backend, ir, extra_checkers, kwargs) ==
    /\ Len(decorators) < MaxDecorators
    /\ IF BackendGet(backend) = "<KeyError>"
       THEN /\ UNCHANGED <<registry_vars, graph, wrapped_fns_to_patch, session_vars>>
            /\ last' = [NoCall EXCEPT !.op = "register_object", !.raised = "KeyError",
                                      !.from = lifecycle]
       ELSE /\ checker_lists' = Append(checker_lists, extra_checkers)
            /\ decorators' = Append(decorators,
                   [name |-> name, backend |-> BackendGet(backend), ir |-> ir,
                    extra_checkers |-> Len(checker_lists) + 1,
                    supplied |-> extra_checkers,
                    kwargs |-> kwargs])
            /\ UNCHANGED <<rewrite_records, record_keys, graph, wrapped_fns_to_patch,
                           session_vars>>
            /\ last' = [NoCall EXCEPT !.op = "register_object", !.from = lifecycle]

\* _register (lines 274-295): append the implicit checkers to the
\* extra_checkers list object, store the list in the record, append the
\* record to the path's candidate list.  The decorator returns the object
\* it was given (line 327).
ImplicitCheckers(backend, ir) ==
    (IF backend # "default" THEN <<[kind |-> "backend", required |-> backend]>> ELSE <<>>)
    \o (IF ir # "default" THEN <<[kind |-> "ir", required |-> ir]>> ELSE <<>>)

\* a registration that puts the new record in front of the path's list
DecoratorPrepends(d, object) ==
    /\ d \in 1..Len(decorators)
    /\ TotalRecords < MaxRecords
    /\ LET dec == decorators[d]
           lst == dec.extra_checkers
           rec == [object |-> object, checkers |-> lst, kwargs |-> dec.kwargs]
       IN /\ checker_lists' = [checker_lists EXCEPT
                 ![lst] = @ \o ImplicitCheckers(dec.backend, dec.ir)]
          /\ rewrite_records' = [rewrite_records EXCEPT
                 ![dec.name] = <<rec>> \o @]
          /\ record_keys' = IF rewrite_records[dec.name] = <<>>
                            THEN Append(record_keys, dec.name) ELSE record_keys
          /\ last' = [NoCall EXCEPT !.op = "decorator", !.from = lifecycle,
                                    !.result = Fn(object)]
    /\ UNCHANGED <<decorators, graph, wrapped_fns_to_patch, session_vars>>

decorator(d, object) ==
    /\ d \in 1..Len(decorators)
    /\ TotalRecords < MaxRecords
    /\ LET dec == decorators[d]
           lst == dec.extra_checkers
           rec == [object |-> object, checkers |-> lst, kwargs |-> dec.kwargs]
       IN /\ checker_lists' = [checker_lists EXCEPT
                 ![lst] = @ \o ImplicitCheckers(dec.backend, dec.ir)]
          /\ rewrite_records' = [rewrite_records EXCEPT
                 ![dec.name] = Append(@, rec)]
          /\ record_keys' = IF rewrite_records[dec.name] = <<>>
                            THEN Append(record_keys, dec.name) ELSE record_keys
          /\ last' = [NoCall EXCEPT !.op = "decorator", !.from = lifecycle,
                                    !.result = Fn(object)]
    /\ UNCHANGED <<decorators, graph, wrapped_fns_to_patch, session_vars>>

(* ---------------------------- remove_record ---------------------------- *)
\* rec == other on two record dictionaries: the same _object, the same
\* keyword arguments, and _checkers lists that are equal: one list object,
\* or two lists without elements (the implicit checkers made by different
\* registrations are different objects, and Checker defines no __eq__).
RecEqual(rec, other, lists) ==
    /\ rec.object = other.object
    /\ rec.kwargs = other.kwargs
    /\ \/ rec.checkers = other.checkers
       \/ lists[rec.checkers] = <<>> /\ lists[other.checkers] = <<>>

\* list.remove(rec), line 351: the first element equal to rec is removed
RECURSIVE RemoveFirstEqual(_, _, _, _)
RemoveFirstEqual(records, rec, lists, i) ==
    IF i > Len(records) THEN records
    ELSE IF RecEqual(records[i], rec, lists)
    THEN SubSeq(records, 1, i - 1) \o SubSeq(records, i + 1, Len(records))
    ELSE RemoveFirstEqual(records, rec, lists, i + 1)

\* The filter callbacks of the model.  "none": no callback; "keep_checked"
\* returns true for a record that has checkers; "keep_first_default"
\* returns true for one record object, the first checker-less record of
\* the first path of the registry.
Filters == {"none", "keep_checked", "keep_first_default"}

FirstDefault(records, lists) ==
    LET idx == {i \in 1..Len(records) : lists[records[i].checkers] = <<>>}
    IN IF idx = {} THEN 0 ELSE CHOOSE i \in idx : \A j \in idx : i <= j

filter_cb(filter, table, keys, lists, key, i) ==
    CASE filter = "keep_checked" -> lists[table[key][i].checkers] # <<>>
      [] filter = "keep_first_default" ->
            key = keys[1] /\ i = FirstDefault(table[key], lists)
      [] OTHER -> FALSE

\* lines 339-346: the (key, rec) pairs to pop, in the order of the
\* dictionary and of each list
RECURSIVE KeyToPop(_, _, _, _, _, _, _)
KeyToPop(table, keys, lists, object, filter, k, i) ==
    IF k > Len(keys) THEN <<>>
    ELSE IF i > Len(table[keys[k]])
    THEN KeyToPop(table, keys, lists, object, filter, k + 1, 1)
    ELSE LET rec == table[keys[k]][i]
             rest == KeyToPop(table, keys, lists, object, filter, k, i + 1)
         IN IF rec.object = object
               /\ ~(filter # "none"
                     /\ filter_cb(filter, table, keys, lists, keys[k], i))
            THEN <<[key |-> keys[k], rec |-> rec]>> \o rest
            ELSE rest

\* lines 348-353: each pair removes one record from its path's list; a
\* list left empty is popped from the dictionary
RECURSIVE PopAll(_, _, _, _)
PopAll(reg, to_pop, lists, n) ==
    IF n > Len(to_pop) THEN reg
    ELSE LET key == to_pop[n].key
             records == RemoveFirstEqual(reg.table[key], to_pop[n].rec, lists, 1)
         IN PopAll([table |-> [reg.table EXCEPT ![key] = records],
                    keys |-> IF records = <<>>
                             THEN SelectSeq(reg.keys, LAMBDA x : x # key)
                             ELSE reg.keys],
                   to_pop, lists, n + 1)

\* RewriterRegistry.remove_record(object, filter_cb), lines 331-353
remove_record(object, filter) ==
    /\ LET to_pop == KeyToPop(rewrite_records, record_keys, checker_lists,
                              object, filter, 1, 1)
           reg == PopAll([table |-> rewrite_records, keys |-> record_keys],
                         to_pop, checker_lists, 1)
       IN /\ rewrite_records' = reg.table
          /\ record_keys' = reg.keys
    /\ last' = [NoCall EXCEPT !.op = "remove_record", !.from = lifecycle,
                              !.result = Fn(object), !.filter = filter,
                              !.table = rewrite_records, !.keys = record_keys]
    /\ UNCHANGED <<decorators, checker_lists, graph, wrapped_fns_to_patch,
                   session_vars>>

(* ----------------------------- get_records ----------------------------- *)
\* Lines 232-261, one candidate list: st carries default_rewriter and
\* final_rewriter (index of the record in the list, 0 for None), the
\* warnings emitted and the exception raised by a checker.
\* a resolution in which the candidate registered last wins
LastWins(st, field, i, warning) ==
    IF st[field] = 0 THEN [st EXCEPT ![field] = i]
    ELSE [st EXCEPT ![field] = i, !.warnings = Append(@, warning)]

\* a resolution that keeps the first candidate and says nothing of a later
\* one
KeepSilently(st, field, i, warning) ==
    IF st[field] = 0 THEN [st EXCEPT ![field] = i] ELSE st

\* lines 239-244 and 256-261: keep the first candidate, warn for a later one
KeepOrWarn(st, field, i, warning) ==
    IF st[field] = 0 THEN [st EXCEPT ![field] = i]
    ELSE [st EXCEPT !.warnings = Append(@, warning)]

RECURSIVE ScanRecords(_, _, _, _, _, _)
ScanRecords(path, recs, lists, env, i, st) ==
    IF i > Len(recs) \/ st.raised # "" THEN st
    ELSE LET checkers == lists[recs[i].checkers]
         IN IF Len(checkers) = 0
            THEN ScanRecords(path, recs, lists, env, i + 1,
                     KeepOrWarn(st, "default_rewriter", i,
                                [kind |-> "multiple default", path |-> path]))
            ELSE LET valid == CheckAll(checkers, env)
                 IN IF valid = "KeyError"
                    THEN [st EXCEPT !.raised = "KeyError"]
                    ELSE IF valid = "true"
                    THEN ScanRecords(path, recs, lists, env, i + 1,
                             KeepOrWarn(st, "final_rewriter", i,
                                        [kind |-> "multiple valid", path |-> path]))
                    ELSE ScanRecords(path, recs, lists, env, i + 1, st)

ResolvedEntry(path, recs, i) == [path |-> path, idx |-> i, record |-> recs[i]]

\* a resolution that also applies the default next to a valid candidate
AppendBoth(path, recs, st, acc) ==
    [acc EXCEPT
       !.records = IF st.final_rewriter # 0
                   THEN Append(@, ResolvedEntry(path, recs, st.final_rewriter))
                   ELSE @,
       !.default_records = IF st.default_rewriter # 0
                           THEN Append(@, ResolvedEntry(path, recs, st.default_rewriter))
                           ELSE @]

\* a resolution without the fallback to the default
AppendNoDefault(path, recs, st, acc) ==
    IF st.final_rewriter # 0
    THEN [acc EXCEPT !.records =
             Append(@, ResolvedEntry(path, recs, st.final_rewriter))]
    ELSE acc

\* Lines 263-268: the valid candidate if there is one, else the default.
AppendFinal(path, recs, st, acc) ==
    IF st.final_rewriter # 0
    THEN [acc EXCEPT !.records =
             Append(@, ResolvedEntry(path, recs, st.final_rewriter))]
    ELSE IF st.default_rewriter # 0
    THEN [acc EXCEPT !.default_records =
             Append(@, ResolvedEntry(path, recs, st.default_rewriter))]
    ELSE acc

\* Lines 229-268, all paths in the insertion order of the dictionary.

RECURSIVE ScanPaths(_, _, _, _, _, _)
ScanPaths(table, keys, lists, env, k, acc) ==
    IF k > Len(keys) \/ acc.raised # "" THEN acc
    ELSE LET path == keys[k]
             st == ScanRecords(path, table[path], lists, env, 1,
                       [default_rewriter |-> 0, final_rewriter |-> 0,
                        warnings |-> <<>>, raised |-> ""])
             acc1 == [acc EXCEPT !.warnings = @ \o st.warnings,
                                 !.raised = st.raised]
         IN IF st.raised # "" THEN acc1
            ELSE ScanPaths(table, keys, lists, env, k + 1,
                           AppendFinal(path, table[path], st, acc1))

\* a resolution that returns the checker-bearing entries first
GetRecordsExplicitFirst(table, keys, lists, env) ==
    LET acc == ScanPaths(table, keys, lists, env, 1,
                   [default_records |-> <<>>, records |-> <<>>,
                    warnings |-> <<>>, raised |-> ""])
    IN [raised |-> acc.raised,
        records |-> IF acc.raised # "" THEN <<>>
                    ELSE acc.records \o acc.default_records,
        warnings |-> acc.warnings]

\* RewriterRegistry.get_records(env): the list returned (line 272), the
\* warnings emitted, and the exception raised if a checker raises.
GetRecords(table, keys, lists, env) ==
    LET acc == ScanPaths(table, keys, lists, env, 1,
                   [default_records |-> <<>>, records |-> <<>>,
                    warnings |-> <<>>, raised |-> ""])
    IN [raised |-> acc.raised,
        records |-> IF acc.raised # "" THEN <<>>
                    ELSE acc.default_records \o acc.records,
        warnings |-> acc.warnings]

get_records(env) ==
    /\ LET res == GetRecords(rewrite_records, record_keys, checker_lists, env)
       IN last' = [NoCall EXCEPT !.op = "get_records", !.from = lifecycle,
                                 !.env = env, !.raised = res.raised,
                                 !.records = res.records,
                                 !.warnings = res.warnings]
    /\ UNCHANGED <<registry_vars, graph, wrapped_fns_to_patch, session_vars>>

(* --------------------------- writing the graph ------------------------- *)
\* _set_func line 58: the default of ignore_keys
IgnoreKeys == {"origin_func"}

\* a repair that rewrites the entry under every key
ReplaceUnderAnyKey(key, value, obj, new_obj) ==
    IF value = obj THEN new_obj ELSE value

\* _replace_all_obj lines 47-49: a dictionary entry that refers to obj is
\* made to refer to new_obj unless its key is an ignored key
ReplaceUnder(key, value, obj, new_obj) ==
    IF value = obj /\ key \notin IgnoreKeys THEN new_obj ELSE value

\* a repair that reaches the namespace entries only
ReplaceInNamespaces(slot, value, obj, new_obj) ==
    IF slot \in AllPaths /\ value = obj THEN new_obj ELSE value

\* _replace_all_obj lines 42-52 on one slot of the live graph: a list slot
\* is rewritten, a dictionary entry is rewritten unless its key is
\* ignored, a slot of any other container (a tuple) is left
ReplaceSlot(slot, value, obj, new_obj) ==
    CASE ContainerOf(slot) = "list" -> IF value = obj THEN new_obj ELSE value
      [] ContainerOf(slot) = "dict" ->
            ReplaceUnder(SlotKey(slot), value, obj, new_obj)
      [] OTHER -> value

\* the attribute dictionary of a ContextCaller: func, origin_func,
\* __wrapped__ (set by wraps, rewriter_utils.py line 385) and _object
ReplaceInCaller(c, obj, new_obj) ==
    [c EXCEPT !.func = ReplaceUnder("func", @, obj, new_obj),
              !.origin_func = ReplaceUnder("origin_func", @, obj, new_obj),
              !.wrapped = ReplaceUnder("__wrapped__", @, obj, new_obj),
              !.object = ReplaceUnder("_object", @, obj, new_obj)]

\* a snapshot dictionary dict(func_path=..., origin_func=...)
ReplaceInSnapshot(d, obj, new_obj) ==
    [d EXCEPT !.origin_func = ReplaceUnder("origin_func", @, obj, new_obj)]

\* _replace_all_obj(obj, new_obj, ignore_keys=('origin_func',)): every
\* referrer of obj is visited: the slots of the live graph, the attribute
\* dictionaries of the ContextCallers and the snapshot dictionaries.
_replace_all_obj(st, obj, new_obj) ==
    [st EXCEPT
       !.graph = [p \in Slots |-> ReplaceSlot(p, st.graph[p], obj, new_obj)],
       !.callers = [i \in 1..Len(st.callers) |->
                       ReplaceInCaller(st.callers[i], obj, new_obj)],
       !.snapshots = [i \in 1..Len(st.snapshots) |->
                         ReplaceInSnapshot(st.snapshots[i], obj, new_obj)]]

\* _set_func(origin_func_path, rewrite_func) on st = [graph, callers,
\* snapshots, raised]: line 76 raises when the path does not evaluate, line 89 when
\* the path cannot be assigned.
\* a writer that leaves the graph as it is
SetFuncNoWrite(st, path, rewrite_func) == st

\* a writer that leaves a path alone when it is bound to a copy made by a
\* session
SetFuncKeepReplacement(st, path, rewrite_func) ==
    LET origin_func == EvalPath(st.graph, path)
    IN IF origin_func = Absent THEN [st EXCEPT !.raised = "AttributeError"]
       ELSE IF origin_func.gen > 0 THEN st
       ELSE [(IF ~IsClassPath(path)
              THEN _replace_all_obj(st, origin_func, rewrite_func)
              ELSE st) EXCEPT !.graph[path] = rewrite_func]

_set_func(st, path, rewrite_func) ==
    LET origin_func == EvalPath(st.graph, path)
    IN IF origin_func = Absent THEN [st EXCEPT !.raised = "AttributeError"]
       ELSE LET st1 == IF ~IsClassPath(path)
                       THEN _replace_all_obj(st, origin_func, rewrite_func)
                       ELSE st
            IN IF ~Writable(path) THEN [st1 EXCEPT !.raised = "TypeError"]
               ELSE [st1 EXCEPT !.graph[path] = rewrite_func]

\* _del_func(path): del of the attribute; the error of deleting an
\* attribute that is not there is swallowed (lines 105-106).
\* a deletion that leaves the attribute in place
DelKeep(g, path) == g

_del_func(g, path) == [g EXCEPT ![path] = Absent]

\* the loop of lines 241-245 (enter) and 254-257 (exit): one _set_func per
\* entry, in list order, stopping at the first that raises.
RECURSIVE SetAll(_, _, _)
SetAll(st, funcs, i) ==
    IF i > Len(funcs) \/ st.raised # "" THEN st
    ELSE SetAll(_set_func(st, funcs[i].func_path, funcs[i].origin_func),
                funcs, i + 1)

\* an enter that undoes the writes already made when a write raises
SubstituteOrRollback(g, cs, snapshots, new_functions) ==
    LET st == SetAll([graph |-> g, callers |-> cs, snapshots |-> snapshots,
                      raised |-> ""], new_functions, 1)
    IN IF st.raised # ""
       THEN [graph |-> g, callers |-> cs, snapshots |-> snapshots,
             raised |-> st.raised]
       ELSE st

\* enter lines 241-245: the queued substitutions are written one by one;
\* an exception of _set_func leaves the loop with the earlier writes made
Substitute(g, cs, snapshots, new_functions) ==
    SetAll([graph |-> g, callers |-> cs, snapshots |-> snapshots,
            raised |-> ""], new_functions, 1)

RECURSIVE DelAll(_, _, _)
DelAll(g, paths, i) ==
    IF i > Len(paths) THEN g ELSE DelAll(_del_func(g, paths[i]), paths, i + 1)

(* ------------------------------- enter --------------------------------- *)
\* _fx_wrap_copied_fn(func, copied_func): when the globals of func are in
\* the allowlist, append (copied_func.__globals__, fn_name) with the name of
\* the first such entry.
RECURSIVE FirstWrapped(_, _, _)
FirstWrapped(lst, glb, i) ==
    IF i > Len(lst) THEN 0
    ELSE IF lst[i].glb = glb THEN i ELSE FirstWrapped(lst, glb, i + 1)

_fx_wrap_copied_fn(lst, func, copied_func) ==
    LET idx == FirstWrapped(lst, Globals(func), 1)
    IN IF idx = 0 THEN lst
       ELSE Append(lst, [glb |-> Globals(copied_func), name |-> lst[idx].name])

\* Lines 186-239: for each resolved record locate the target, classify it,
\* snapshot it, copy the replacement, build and index the ContextCaller and
\* queue the write.  Nothing is written to the graph here.  The copy is
\* made after the snapshot is appended: when it raises, the loop ends with
\* the snapshot of that record already in the list.
\* a classification that never sees an addition
NeverAddition(g, path) == FALSE

\* lines 201-210: the path names a method and the class's own dictionary
\* has no attribute of that name
is_addition_function(g, path) == IsClassPath(path) /\ g[path] = Absent

\* an index that lists the ContextCaller under the function path only
IndexPathOnly(ctxs, qualname, path, id) ==
    [k \in ContextKeys |-> IF k = path THEN Append(ctxs[k], id) ELSE ctxs[k]]

\* lines 232-234: the ContextCaller is appended under the qualified name
\* of the copied replacement and under the function path
IndexBoth(ctxs, qualname, path, id) ==
    [k \in ContextKeys |->
        IF k = qualname /\ k = path THEN ctxs[k] \o <<id, id>>
        ELSE IF k = qualname \/ k = path THEN Append(ctxs[k], id)
        ELSE ctxs[k]]

\* a loop that writes each substitution as soon as it is built, so that
\* the next record is located in the graph already written
GraphWrittenAtOnce(g, function_path, rewrite_function) ==
    _set_func([graph |-> g, callers |-> <<>>, snapshots |-> <<>>,
               raised |-> ""],
              function_path, rewrite_function).graph

\* lines 236-239: the substitution is queued in new_functions, the graph
\* in which the next record is located is the one enter was called on
GraphSeenByNext(g, function_path, rewrite_function) == g

\* an enter that lets the failure of import_function propagate
RaiseMissing(acc, entry) == [acc EXCEPT !.raised = "AttributeError"]

\* lines 189-199: import_function raised, the path is reported with a
\* warning and the record is skipped
SkipMissing(acc, entry) ==
    [acc EXCEPT
       !.warnings = Append(@, [kind |-> "Can not find", path |-> entry.path]),
       !.session = Append(@, [path |-> entry.path,
                              idx |-> entry.idx,
                              record |-> entry.record,
                              found |-> FALSE,
                              addition |-> FALSE,
                              copy |-> Absent,
                              ctx |-> 0])]

RECURSIVE Prepare(_, _, _, _, _)
Prepare(g, records, gen, i, acc) ==
    IF i > Len(records) \/ acc.raised # "" THEN acc
    ELSE LET function_path == records[i].path
             record_dict == records[i].record
             origin_func == EvalPath(g, function_path)
         IN IF origin_func = Absent
            THEN Prepare(g, records, gen, i + 1, SkipMissing(acc, records[i]))
            ELSE IF ~IsFunction(record_dict.object)
            THEN [acc EXCEPT
                    !.raised = "AttributeError",
                    !.additional_functions =
                        IF is_addition_function(g, function_path)
                        THEN Append(@, function_path) ELSE @,
                    !.origin_functions =
                        Append(@, [func_path |-> function_path,
                                   origin_func |-> origin_func]),
                    !.session = Append(@, [path |-> function_path,
                                           idx |-> records[i].idx,
                                           record |-> record_dict,
                                           found |-> TRUE,
                                           addition |->
                                               is_addition_function(g, function_path),
                                           copy |-> Absent,
                                           ctx |-> 0])]
            ELSE LET addition == is_addition_function(g, function_path)
                     rewrite_function ==
                         copy_function(record_dict.object, function_path, gen)
                     context_caller ==
                         [func |-> rewrite_function,
                          origin_func |-> origin_func,
                          wrapped |-> origin_func,
                          object |-> Fn(record_dict.object),
                          kwargs |-> ExtraKwargs(acc.kwargs, record_dict.kwargs)]
                     id == Len(acc.callers) + 1
                 IN Prepare(GraphSeenByNext(g, function_path, rewrite_function),
                            records, gen, i + 1,
                      [acc EXCEPT
                         !.additional_functions =
                             IF addition THEN Append(@, function_path) ELSE @,
                         !.origin_functions =
                             Append(@, [func_path |-> function_path,
                                        origin_func |-> origin_func]),
                         !.callers = Append(@, context_caller),
                         !.wrapped = _fx_wrap_copied_fn(@, Fn(record_dict.object),
                                                        rewrite_function),
                         !.func_contexts =
                             IndexBoth(@, get_func_qualname(rewrite_function),
                                       function_path, id),
                         !.new_functions =
                             Append(@, [func_path |-> function_path,
                                        origin_func |-> rewrite_function]),
                         !.session = Append(@, [path |-> function_path,
                                                idx |-> records[i].idx,
                                                record |-> record_dict,
                                                found |-> TRUE,
                                                addition |-> addition,
                                                copy |-> rewrite_function,
                                                ctx |-> id])])

NoContexts == [k \in ContextKeys |-> <<>>]

\* FunctionRewriter.enter(cfg, env, **kwargs), lines 175-245.  res is
\* functions_records, acc the state after the first loop, st the state
\* after the write loop; each is computed once.
enter(env, kwargs) ==
    /\ enter_count < MaxEnters
    /\ enter_count' = enter_count + 1
    /\ pre_graph' = graph
    /\ \E res \in {GetRecords(rewrite_records, record_keys, checker_lists, env)} :
          IF res.raised # ""
          THEN /\ func_contexts' = NoContexts
               /\ callers' = <<>>
               /\ session' = <<>>
               /\ lifecycle' = "Broken"
               /\ last' = [NoCall EXCEPT !.op = "enter", !.from = lifecycle,
                                         !.env = env, !.raised = res.raised,
                                         !.kwargs = kwargs,
                                         !.warnings = res.warnings,
                                         !.before = wrapped_fns_to_patch]
               /\ enter_wrapped' = [before |-> wrapped_fns_to_patch,
                                     after |-> wrapped_fns_to_patch]
               /\ UNCHANGED <<graph, wrapped_fns_to_patch, origin_functions,
                              additional_functions, ori_fx_wrap_num>>
          ELSE \E acc \in {Prepare(graph, res.records, enter_count + 1, 1,
                              [origin_functions |-> <<>>,
                               additional_functions |-> <<>>,
                               func_contexts |-> NoContexts,
                               callers |-> <<>>,
                               wrapped |-> wrapped_fns_to_patch,
                               new_functions |-> <<>>,
                               warnings |-> <<>>,
                               session |-> <<>>,
                               kwargs |-> kwargs,
                               raised |-> ""])} :
               \E st \in {IF acc.raised # ""
                          THEN [graph |-> graph, callers |-> acc.callers,
                                snapshots |-> acc.origin_functions,
                                raised |-> acc.raised]
                          ELSE Substitute(graph, acc.callers,
                                          acc.origin_functions,
                                          acc.new_functions)} :
                  /\ ori_fx_wrap_num' = Len(wrapped_fns_to_patch)
                  /\ origin_functions' = st.snapshots
                  /\ additional_functions' = acc.additional_functions
                  /\ func_contexts' = acc.func_contexts
                  /\ wrapped_fns_to_patch' = acc.wrapped
                  /\ enter_wrapped' = [before |-> wrapped_fns_to_patch,
                                        after |-> acc.wrapped]
                  /\ session' = acc.session
                  /\ graph' = st.graph
                  /\ callers' = st.callers
                  /\ lifecycle' = IF st.raised = "" THEN "Active" ELSE "Broken"
                  /\ last' = [NoCall EXCEPT !.op = "enter", !.from = lifecycle,
                                            !.env = env, !.raised = st.raised,
                                            !.kwargs = kwargs,
                                            !.records = res.records,
                                            !.warnings = res.warnings \o acc.warnings,
                                            !.before = wrapped_fns_to_patch]
    /\ UNCHANGED registry_vars

(* -------------------------------- exit --------------------------------- *)
\* Lines 250-252: pop cur - ori entries from the tail (none when the
\* difference is not positive).
RestoreWrapped(lst, ori) == IF Len(lst) > ori THEN SubSeq(lst, 1, ori) ELSE lst

\* FunctionRewriter.exit(), lines 247-261.  The attributes read here are
\* created by enter only (__init__, lines 148-150, does not set them).
exit ==
    IF ori_fx_wrap_num = Unset
    THEN /\ last' = [NoCall EXCEPT !.op = "exit", !.from = lifecycle,
                                   !.raised = "AttributeError",
                                   !.before = wrapped_fns_to_patch]
         /\ UNCHANGED <<registry_vars, graph, wrapped_fns_to_patch, session_vars>>
    ELSE \E st \in {SetAll([graph |-> graph, callers |-> callers,
                            snapshots |-> origin_functions, raised |-> ""],
                           origin_functions, 1)} :
            /\ wrapped_fns_to_patch' = RestoreWrapped(wrapped_fns_to_patch,
                                                      ori_fx_wrap_num)
            /\ IF st.raised # ""
               THEN /\ graph' = st.graph
                    /\ callers' = st.callers
                    /\ UNCHANGED <<func_contexts, lifecycle>>
               ELSE /\ graph' = DelAll(st.graph, additional_functions, 1)
                    /\ callers' = <<>>
                    /\ func_contexts' = NoContexts
                    /\ lifecycle' = "Inactive"
            /\ last' = [NoCall EXCEPT !.op = "exit", !.from = lifecycle,
                                      !.raised = st.raised,
                                      !.before = wrapped_fns_to_patch]
            /\ origin_functions' = st.snapshots
            /\ UNCHANGED <<registry_vars, additional_functions,
                           ori_fx_wrap_num, enter_count, pre_graph,
                           enter_wrapped, session>>

(* ----------------------------- get_context ----------------------------- *)
\* Lines 284-287: the last ContextCaller of ctxs whose func is the caller
\* (0 for None).
RECURSIVE MatchFunc(_, _, _, _, _)
MatchFunc(heap, ctxs, func, i, ctx) ==
    IF i > Len(ctxs) THEN ctx
    ELSE MatchFunc(heap, ctxs, func, i + 1,
                   IF heap[ctxs[i]].func = func THEN ctxs[i] ELSE ctx)

\* lines 280-282: exactly one ContextCaller under the key, or an assertion
\* failure
LookupSingle(ctxs, k) ==
    IF Len(ctxs) = 1
    THEN [raised |-> "", ctx |-> ctxs[1], warnings |-> <<>>, key |-> k]
    ELSE [raised |-> "AssertionError", ctx |-> 0, warnings |-> <<>>, key |-> k]

\* lines 284-291: the ContextCaller whose func is the caller, or a warning
\* and None
LookupByFunc(ctxs, k, func) ==
    LET ctx == MatchFunc(callers, ctxs, func, 1, 0)
    IN [raised |-> "", ctx |-> ctx, key |-> k,
        warnings |-> IF ctx = 0
                     THEN <<[kind |-> "Can not found context", path |-> k]>>
                     ELSE <<>>]

ContextsOf(k) == IF k \in ContextKeys THEN func_contexts[k] ELSE <<>>

\* a lookup that asserts a single ContextCaller whether or not a key is given
GetContextAssertAlways(use_key, key, frame_func) ==
    IF ~use_key /\ frame_func = Absent
    THEN [raised |-> "AssertionError", ctx |-> 0, warnings |-> <<>>, key |-> key]
    ELSE LET k == IF use_key THEN key ELSE get_func_qualname(frame_func)
         IN LookupSingle(ContextsOf(k), k)

\* a lookup that never asserts: with a key it searches for a func equal to
\* None, finds nothing, warns and returns None
GetContextWarnAlways(use_key, key, frame_func) ==
    IF ~use_key /\ frame_func = Absent
    THEN [raised |-> "AssertionError", ctx |-> 0, warnings |-> <<>>, key |-> key]
    ELSE LET k == IF use_key THEN key ELSE get_func_qualname(frame_func)
         IN LookupByFunc(ContextsOf(k), k, IF use_key THEN Absent ELSE frame_func)

\* FunctionRewriter.get_context(key), lines 263-291.  use_key = FALSE is
\* the call without a key: get_frame_func(2) yields the calling function
\* frame_func (Absent when the frame's function name is not in its
\* globals, an assertion failure of get_frame_func) and the key is its
\* qualified name.  With a key, func stays None.
GetContext(use_key, key, frame_func) ==
    IF ~use_key /\ frame_func = Absent
    THEN [raised |-> "AssertionError", ctx |-> 0, warnings |-> <<>>, key |-> key]
    ELSE LET k == IF use_key THEN key ELSE get_func_qualname(frame_func)
         IN IF use_key THEN LookupSingle(ContextsOf(k), k)
            ELSE LookupByFunc(ContextsOf(k), k, frame_func)

get_context(use_key, key, frame_func) ==
    /\ LET res == GetContext(use_key, key, frame_func)
       IN last' = [NoCall EXCEPT !.op = IF use_key THEN "get_context(key)"
                                       ELSE "get_context()",
                                 !.from = lifecycle, !.raised = res.raised,
                                 !.key = res.key, !.caller = frame_func,
                                 !.ctx = res.ctx, !.warnings = res.warnings]
    /\ UNCHANGED <<registry_vars, graph, wrapped_fns_to_patch, session_vars>>

\* the functions a call of get_context can come from: the installed copies,
\* the registered payloads themselves, an original function, or a frame whose
\* function is not found
FrameFuncs ==
    {callers[i].func : i \in 1..Len(callers)}
    \cup {Fn(r) : r \in Payloads} \cup {Fn("F"), Absent}

(* ---------------------------- version check ---------------------------- *)
\* a call of LibVersionChecker(lib, min_version, max_version).check(env)
version_check(min_version, max_version, reported) ==
    /\ LET c == [lib |-> "foo", min_version |-> min_version,
                 max_version |-> max_version]
       IN last' = [NoCall EXCEPT !.op = "LibVersionChecker.check",
                                 !.from = lifecycle, !.checker = c,
                                 !.reported = reported,
                                 !.valid = LibVersionCheck(c, reported),
                                 !.raised = IF LibVersionCheck(c, reported)
                                                = "KeyError"
                                            THEN "KeyError" ELSE ""]
    /\ UNCHANGED <<registry_vars, graph, wrapped_fns_to_patch, session_vars>>

(* ------------------------------ invocation ----------------------------- *)
\* ContextCaller.__call__ and the wrapper of get_wrapped_caller (lines
\* 392-407): self.func is called with the ContextCaller as first argument,
\* followed by the arguments of the call.
ContextCallerCall(id, args) ==
    [callee |-> callers[id].func, received |-> <<[ctx |-> id]>> \o args]

\* a graph in which the callable bound to a substituted path dispatches as
\* a ContextCaller does
CallInjectsContext(g, path, args) ==
    LET ids == {id \in 1..Len(callers) : callers[id].func = EvalPath(g, path)}
    IN IF ids = {} THEN [callee |-> EvalPath(g, path), received |-> args]
       ELSE ContextCallerCall(CHOOSE id \in ids : TRUE, args)

\* A call through a path of the live graph: the object bound there is
\* looked up and called.  What enter binds to a path is the copied
\* function itself (lines 237-245), a plain function, whose parameters
\* receive the arguments of the call and nothing else.
CallThroughPath(g, path, args) ==
    [callee |-> EvalPath(g, path), received |-> args]

call(path, args) ==
    /\ EvalPath(graph, path) # Absent
    /\ LET res == CallThroughPath(graph, path, args)
       IN last' = [NoCall EXCEPT !.op = "call", !.from = lifecycle,
                                 !.key = path, !.callee = res.callee,
                                 !.args = args, !.received = res.received]
    /\ UNCHANGED <<registry_vars, graph, wrapped_fns_to_patch, session_vars>>

(* ------------------------ the tracing allowlist ------------------------ *)
\* the entries of the allowlist appended by other code: their globals are
\* those of a module, not of a copy made by enter
Outside(lst) == SelectSeq(lst, LAMBDA e : e.glb.gen = 0)

\* torch.fx.wrap called by other code: appends to the shared list
\* _wrapped_fns_to_patch (imported at lines 12-21).
fx_wrap(glb) ==
    /\ Len(Outside(wrapped_fns_to_patch)) < MaxWrapped
    /\ wrapped_fns_to_patch' = Append(wrapped_fns_to_patch,
                                      [glb |-> Fn(glb), name |-> "w"])
    /\ last' = [NoCall EXCEPT !.op = "fx_wrap", !.from = lifecycle,
                              !.before = wrapped_fns_to_patch]
    /\ UNCHANGED <<registry_vars, graph, session_vars>>

\* another user of the shared list _wrapped_fns_to_patch removes its last
\* entry (the list is a module global of torch.fx, lines 12-21)
fx_pop ==
    /\ wrapped_fns_to_patch # <<>>
    /\ wrapped_fns_to_patch' = SubSeq(wrapped_fns_to_patch, 1,
                                      Len(wrapped_fns_to_patch) - 1)
    /\ last' = [NoCall EXCEPT !.op = "fx_pop", !.from = lifecycle,
                              !.before = wrapped_fns_to_patch]
    /\ UNCHANGED <<registry_vars, graph, session_vars>>

(* --------------------------- specification ----------------------------- *)
\* The graph before any session: mod.g is a function of its own or another
\* name of the function at mod.f; Base defines m and Derived only inherits
\* it; Frozen defines m; mod.missing names nothing; the holders refer to
\* the function at mod.f, method_list to Base's method.
InitGraphs ==
    {[p \in Slots |->
        CASE p = "mod.f" -> Fn("F")
          [] p = "mod.g" -> g
          [] p = "Base.m" -> Fn("M")
          [] p = "Frozen.m" -> Fn("X")
          [] p = "method_list[0]" -> Fn("M")
          [] p \in HolderSlots -> Fn("F")
          [] OTHER -> Absent] : g \in {Fn("G"), Fn("F")}}

Init ==
    /\ decorators = <<>>
    /\ checker_lists = <<>>
    /\ rewrite_records = [p \in AllPaths |-> <<>>]
    /\ record_keys = <<>>
    /\ graph \in InitGraphs
    /\ wrapped_fns_to_patch = <<>>
    /\ func_contexts = NoContexts
    /\ callers = <<>>
    /\ origin_functions = <<>>
    /\ additional_functions = <<>>
    /\ ori_fx_wrap_num = Unset
    /\ enter_count = 0
    /\ lifecycle = "Inactive"
    /\ pre_graph = graph
    /\ enter_wrapped = [before |-> <<>>, after |-> <<>>]
    /\ session = <<>>
    /\ last = NoCall

\* Registration is build-time and uses the @ syntax: a decorator is applied
\* before the next one is made (it may be applied again later), and in the
\* session specifications the registry is filled before the first enter.
AllApplied ==
    \A d \in 1..Len(decorators) :
        \E k \in 1..Len(record_keys) :
            \E i \in 1..Len(rewrite_records[record_keys[k]]) :
                rewrite_records[record_keys[k]][i].checkers
                    = decorators[d].extra_checkers

BuildTime == enter_count = 0

\* inputs of the session specification: two module-level paths, a method
\* and the same method inherited by a subclass; the two replacement
\* functions are interchangeable, so the first decorator is applied to r1;
\* both environments carry every key the checkers read
SessionPaths == {"mod.f", "mod.g", "Base.m", "Derived.m"}

SessionBackends == {"default", "tensorrt"}

SessionPayloads == IF TotalRecords = 0 THEN {"r1"} ELSE Payloads

SessionEnvs == {[backend |-> "tensorrt", ir |-> "onnx"],
                [backend |-> "onnxruntime", ir |-> "onnx"]}

Next ==
    \/ \E name \in SessionPaths, backend \in SessionBackends :
          /\ BuildTime /\ AllApplied /\ TotalRecords < MaxSessionRecords
          /\ register_object(name, backend, "default", <<>>, NoKwargs)
    \/ \E d \in 1..MaxDecorators, object \in SessionPayloads :
          /\ BuildTime /\ TotalRecords < MaxSessionRecords
          /\ decorator(d, object)
    \/ \E env \in SessionEnvs : AllApplied /\ enter(env, NoKwargs)
    \/ AllApplied /\ exit

Spec == Init /\ [][Next]_vars

\* inputs of the context specification: two module-level paths, default
\* candidates only, one environment, every form of get_context call
ContextPaths == {"mod.f", "mod.g"}

ContextEnv == [backend |-> "tensorrt", ir |-> "onnx"]

LookupKeys == {"mod.f", "rw.r1", "no.such.key"}

NextContext ==
    \/ \E name \in ContextPaths :
          /\ BuildTime /\ AllApplied /\ TotalRecords < MaxSessionRecords
          /\ register_object(name, "default", "default", <<>>, NoKwargs)
    \/ \E d \in 1..MaxDecorators, object \in Payloads :
          /\ BuildTime /\ TotalRecords < MaxSessionRecords
          /\ decorator(d, object)
    \/ AllApplied /\ enter(ContextEnv, NoKwargs)
    \/ AllApplied /\ exit
    \/ \E key \in LookupKeys : get_context(TRUE, key, Absent)
    \/ \E func \in FrameFuncs : get_context(FALSE, "", func)

SpecContext == Init /\ [][NextContext]_vars

\* inputs of the registry specification: resolution over two paths
RegistryPaths == {"mod.f", "mod.g"}

RegistryBackends == {"default", "tensorrt", "bogus"}

RegistryIRs == {"default", "onnx"}

RegistryEnvs == FullEnvs \cup {NoEnv, [backend |-> "tensorrt", ir |-> Missing]}

NextRegistry ==
    \/ \E name \in RegistryPaths, backend \in RegistryBackends, ir \in RegistryIRs :
          AllApplied /\ register_object(name, backend, ir, <<>>, NoKwargs)
    \/ \E d \in 1..MaxDecorators : decorator(d, "r1")
    \/ \E env \in RegistryEnvs : get_records(env)

InitRegistry == Init /\ graph["mod.g"] = Fn("G")

SpecRegistry == InitRegistry /\ [][NextRegistry]_vars

\* inputs of the token specification: one path, known and unknown backend
\* and IR tokens
TokenBackends == {"default", "tensorrt", "bogus"}

TokenIRs == {"default", "onnx", "bogus"}

NextTokens ==
    \/ \E backend \in TokenBackends, ir \in TokenIRs :
          AllApplied /\ register_object("mod.f", backend, ir, <<>>, NoKwargs)
    \/ \E d \in 1..MaxDecorators : decorator(d, "r1")
    \/ get_records(ContextEnv)

SpecTokens == InitRegistry /\ [][NextTokens]_vars

\* inputs of the version specification: the bounds of the checker and the
\* value env holds for the library
VersionBounds == {NoneValue, V_1_8_0, V_1_9, V_1_10, V_1_10_0}

ReportedValues == VersionStrings \cup {NoneValue, KeyMissing}

NextVersion ==
    \E min_version \in VersionBounds, max_version \in VersionBounds,
       reported \in ReportedValues :
        version_check(min_version, max_version, reported)

SpecVersion == InitRegistry /\ [][NextVersion]_vars

\* inputs of the removal specification: two paths, two payloads, default
\* candidates and a checker-bearing one, every filter; a decorator is applied
\* again only while the checker lists, which grow with each application,
\* are short
RemoveTargets == {[name |-> "mod.f", backend |-> "default"],
                  [name |-> "mod.g", backend |-> "tensorrt"]}

NextRemove ==
    \/ \E t \in RemoveTargets :
          /\ AllApplied
          /\ register_object(t.name, t.backend, "default", <<>>, NoKwargs)
    \/ \E d \in 1..MaxDecorators, object \in Payloads :
          /\ TotalRecords < MaxRemoveRecords
          /\ \A l \in 1..Len(checker_lists) :
                Len(checker_lists[l]) < MaxRemoveRecords
          /\ decorator(d, object)
    \/ \E object \in Payloads, filter \in Filters :
          AllApplied /\ remove_record(object, filter)

SpecRemove == InitRegistry /\ [][NextRemove]_vars

\* inputs of the metadata specification: two module-level paths, default
\* candidates registered with or without metadata, enter with or without
\* keyword arguments, calls through the paths
MetaPaths == {"mod.f", "mod.g"}

RegKwargs == {NoKwargs, [k1 |-> "reg", k2 |-> NoValue]}

CallKwargs == {NoKwargs, [k1 |-> "call", k2 |-> "call"]}

CallArgs == {<<>>, <<[arg |-> "x"]>>}

NextMeta ==
    \/ \E name \in MetaPaths, kwargs \in RegKwargs :
          /\ BuildTime /\ AllApplied /\ TotalRecords < MaxSessionRecords
          /\ register_object(name, "default", "default", <<>>, kwargs)
    \/ \E d \in 1..MaxDecorators, object \in SessionPayloads :
          /\ BuildTime /\ TotalRecords < MaxSessionRecords
          /\ decorator(d, object)
    \/ \E kwargs \in CallKwargs : AllApplied /\ enter(ContextEnv, kwargs)
    \/ AllApplied /\ exit
    \/ \E path \in MetaPaths, args \in CallArgs : call(path, args)

SpecMeta == Init /\ [][NextMeta]_vars

\* inputs of the fault specification: a path that names nothing, a
\* registered callable that cannot be copied, an environment without keys
FaultPaths == {"mod.f", "mod.g", "mod.missing"}

FaultPayloads == {"r1", NotAFunction}

FaultEnvs == {ContextEnv, NoEnv}

NextFault ==
    \/ \E name \in FaultPaths, backend \in SessionBackends :
          /\ BuildTime /\ AllApplied /\ TotalRecords < MaxSessionRecords
          /\ register_object(name, backend, "default", <<>>, NoKwargs)
    \/ \E d \in 1..MaxDecorators, object \in FaultPayloads :
          /\ BuildTime /\ TotalRecords < MaxSessionRecords
          /\ decorator(d, object)
    \/ \E env \in FaultEnvs : AllApplied /\ enter(env, NoKwargs)
    \/ AllApplied /\ exit

SpecFault == Init /\ [][NextFault]_vars

\* inputs of the partial-failure specification: two module-level paths, an
\* inherited method and a method of a class that rejects assignment,
\* default candidates, one environment
PartialPaths == {"mod.f", "mod.g", "Derived.m", "Frozen.m"}

\* inputs of the allowlist specification: one module-level path with a
\* default candidate, other code that wraps a function of the rewriter
\* module or of another module, or removes the last entry of the allowlist
WrapGlobals == {"rw", "other"}

NextAllowlist ==
    \/ /\ BuildTime /\ AllApplied /\ TotalRecords < MaxSessionRecords
       /\ register_object("mod.f", "default", "default", <<>>, NoKwargs)
    \/ \E d \in 1..MaxDecorators :
          /\ BuildTime /\ TotalRecords < MaxSessionRecords
          /\ decorator(d, "r1")
    \/ \E glb \in WrapGlobals : fx_wrap(glb)
    \/ fx_pop
    \/ AllApplied /\ enter(ContextEnv, NoKwargs)
    \/ AllApplied /\ exit

SpecAllowlist == InitRegistry /\ [][NextAllowlist]_vars

\* inputs of the holder specification: two module-level paths, which may
\* name one function, and a method; default candidates, one environment
HolderPaths == {"mod.f", "mod.g", "Base.m"}

NextHolders ==
    \/ \E name \in HolderPaths :
          /\ BuildTime /\ AllApplied /\ TotalRecords < MaxSessionRecords
          /\ register_object(name, "default", "default", <<>>, NoKwargs)
    \/ \E d \in 1..MaxDecorators, object \in SessionPayloads :
          /\ BuildTime /\ TotalRecords < MaxSessionRecords
          /\ decorator(d, object)
    \/ AllApplied /\ enter(ContextEnv, NoKwargs)
    \/ AllApplied /\ exit

SpecHolders == Init /\ [][NextHolders]_vars

NextPartial ==
    \/ \E name \in PartialPaths :
          /\ BuildTime /\ AllApplied /\ TotalRecords < MaxSessionRecords
          /\ register_object(name, "default", "default", <<>>, NoKwargs)
    \/ \E d \in 1..MaxDecorators, object \in SessionPayloads :
          /\ BuildTime /\ TotalRecords < MaxSessionRecords
          /\ decorator(d, object)
    \/ AllApplied /\ enter(ContextEnv, NoKwargs)
    \/ AllApplied /\ exit

SpecPartial == Init /\ [][NextPartial]_vars

(* ======================= properties of resolution ====================== *)
\* What a checker requires of the environment, stated on the environment
\* itself: the key is there and holds the required value.
Passes(c, env) ==
    \/ c.kind = "backend" /\ env.backend # Missing /\ env.backend = c.required
    \/ c.kind = "ir" /\ env.ir # Missing /\ env.ir = c.required

CheckersOf(rec) == checker_lists[rec.checkers]

IsDefault(rec) == Len(CheckersOf(rec)) = 0

IsValid(rec, env) ==
    /\ ~IsDefault(rec)
    /\ \A j \in 1..Len(CheckersOf(rec)) : Passes(CheckersOf(rec)[j], env)

ValidIdx(p, env) ==
    {i \in 1..Len(rewrite_records[p]) : IsValid(rewrite_records[p][i], env)}

DefaultIdx(p) ==
    {i \in 1..Len(rewrite_records[p]) : IsDefault(rewrite_records[p][i])}

MinOf(S) == CHOOSE x \in S : \A y \in S : x <= y

EntriesOf(p) == {k \in 1..Len(last.records) : last.records[k].path = p}

WarningsOf(p) == {k \in 1..Len(last.warnings) : last.warnings[k].path = p}

Returned == last.op = "get_records" /\ last.raised = ""

\* C3: the list returned by get_records(E) holds each function path at most
\* once: exactly once when the path has a valid non-default candidate or a
\* default candidate, and not at all when it has neither.
C3_OneEntryPerPath ==
    Returned =>
        \A p \in AllPaths :
            Cardinality(EntriesOf(p)) =
                IF ValidIdx(p, last.env) # {} \/ DefaultIdx(p) # {} THEN 1 ELSE 0

\* one path with several candidates resolved once, another registered path
\* left out because nothing applies to it
C3_Witness ==
    /\ Returned
    /\ \E p \in AllPaths :
          /\ Len(rewrite_records[p]) >= 2
          /\ Cardinality(EntriesOf(p)) = 1
    /\ \E q \in AllPaths :
          /\ rewrite_records[q] # <<>>
          /\ EntriesOf(q) = {}

\* C4: a checker-bearing candidate is valid in E iff every one of its
\* checkers passes on E, and a path with a valid candidate is resolved to
\* a valid candidate (the first registered), also when a default is
\* registered for the path, before or after it.
C4_ValidCandidateWins ==
    Returned =>
        /\ \A k \in 1..Len(last.records) :
              LET e == last.records[k]
              IN /\ e.idx \in 1..Len(rewrite_records[e.path])
                 /\ e.record = rewrite_records[e.path][e.idx]
                 /\ ~IsDefault(e.record) => IsValid(e.record, last.env)
        /\ \A p \in AllPaths :
              ValidIdx(p, last.env) # {} =>
                  \E k \in EntriesOf(p) :
                      last.records[k].idx = MinOf(ValidIdx(p, last.env))

\* the default was registered first, the valid candidate after it, and the
\* valid candidate is the one returned
C4_Witness ==
    /\ Returned
    /\ \E p \in AllPaths : \E k \in EntriesOf(p) :
          /\ DefaultIdx(p) # {}
          /\ MinOf(DefaultIdx(p)) < last.records[k].idx
          /\ IsValid(last.records[k].record, last.env)
          /\ Len(CheckersOf(last.records[k].record)) > 1

\* C5: a path with a default candidate and no valid checker-bearing
\* candidate is resolved to the default (the first registered).
C5_DefaultFallback ==
    Returned =>
        \A p \in AllPaths :
            (DefaultIdx(p) # {} /\ ValidIdx(p, last.env) = {}) =>
                \E k \in EntriesOf(p) :
                    /\ last.records[k].idx = MinOf(DefaultIdx(p))
                    /\ IsDefault(last.records[k].record)

\* a default and a candidate that requires IR onnx, environment with IR
\* torchscript: the default is returned
C5_Witness ==
    /\ Returned
    /\ last.env.ir = "torchscript"
    /\ \E p \in AllPaths : \E k \in EntriesOf(p) :
          /\ IsDefault(last.records[k].record)
          /\ \E i \in 1..Len(rewrite_records[p]) :
                \E j \in 1..Len(CheckersOf(rewrite_records[p][i])) :
                    CheckersOf(rewrite_records[p][i])[j]
                        = [kind |-> "ir", required |-> "onnx"]

\* the case of C6: get_records was called with an environment that has both
\* keys, and path p has exactly two valid checker-bearing candidates
TwoValid(p) ==
    /\ last.op = "get_records"
    /\ last.env \in FullEnvs
    /\ Cardinality(ValidIdx(p, last.env)) = 2

\* C6 as stated: two valid checker-bearing candidates on one path give no
\* error, one entry for the path, the first registered, and exactly one
\* warning for the path.
C6_Original ==
    \A p \in AllPaths :
        TwoValid(p) =>
            /\ last.raised = ""
            /\ Cardinality(EntriesOf(p)) = 1
            /\ \A k \in EntriesOf(p) :
                  last.records[k].idx = MinOf(ValidIdx(p, last.env))
            /\ Cardinality(WarningsOf(p)) = 1

\* C6 as amended: no error, one entry, the first registered valid
\* candidate, exactly one warning for the two valid candidates, and one
\* more warning for each default of the path beyond its first.
C6_FirstValidWinsOneWarning ==
    \A p \in AllPaths :
        TwoValid(p) =>
            /\ last.raised = ""
            /\ Cardinality(EntriesOf(p)) = 1
            /\ \A k \in EntriesOf(p) :
                  last.records[k].idx = MinOf(ValidIdx(p, last.env))
            /\ Cardinality({k \in WarningsOf(p) :
                      last.warnings[k].kind = "multiple valid"}) = 1
            /\ Cardinality({k \in WarningsOf(p) :
                      last.warnings[k].kind = "multiple default"})
                  = IF DefaultIdx(p) = {} THEN 0
                    ELSE Cardinality(DefaultIdx(p)) - 1

\* two valid candidates and two defaults on one path: two warnings
C6_Witness ==
    \E p \in AllPaths :
        /\ TwoValid(p)
        /\ Cardinality(DefaultIdx(p)) = 2
        /\ Cardinality(WarningsOf(p)) = 2
        /\ \E k \in EntriesOf(p) : last.records[k].idx = MinOf(ValidIdx(p, last.env))

(* ======================== properties of a session ====================== *)
\* the resolved paths of the latest enter whose target was found
Found == {i \in 1..Len(session) : session[i].found}

MaxOf(S) == CHOOSE x \in S : \A y \in S : y <= x

\* exit has just returned, and it closed a session whose enter returned
AfterExit == last.op = "exit" /\ last.from = "Active" /\ last.raised = ""

\* C1: enter followed by exit leaves every path (module-level function,
\* method of its own class, method only inherited) bound to the callable it
\* was bound to before enter, with no attribute added or removed.
C1_EnterExitRestores == AfterExit => graph = pre_graph

\* a session that substituted a module-level function and an inherited
\* method has been closed
C1_Witness ==
    /\ AfterExit
    /\ \E i \in Found : session[i].addition
    /\ \E j \in Found : ~IsClassPath(session[j].path)

\* C2 as stated: a path with an existing target and a candidate whose
\* checkers all pass yields, from the return of enter until exit, the
\* replacement the session made for it and not the original, and the
\* original again after exit.
C2_Original ==
    \A i \in Found :
        ~IsDefault(session[i].record) =>
            /\ lifecycle = "Active" =>
                  /\ EvalPath(graph, session[i].path) = session[i].copy
                  /\ EvalPath(graph, session[i].path)
                        # EvalPath(pre_graph, session[i].path)
            /\ AfterExit =>
                  EvalPath(graph, session[i].path)
                      = EvalPath(pre_graph, session[i].path)

\* the resolved entry whose replacement a module-level path ends up with:
\* the last one whose path was bound to the same function object
Overrider(i) ==
    MaxOf({i} \cup {j \in Found :
                      /\ ~IsClassPath(session[i].path)
                      /\ ~IsClassPath(session[j].path)
                      /\ EvalPath(pre_graph, session[j].path)
                            = EvalPath(pre_graph, session[i].path)})

\* C2 as amended: from the return of enter until exit the path yields a
\* replacement made by the session and not the original: its own
\* replacement, or that of the last resolved module-level path that was
\* bound to the same function object; after exit it yields the original.
C2_ReplacedWhileActive ==
    \A i \in Found :
        ~IsDefault(session[i].record) =>
            /\ lifecycle = "Active" =>
                  /\ EvalPath(graph, session[i].path) = session[Overrider(i)].copy
                  /\ EvalPath(graph, session[i].path)
                        # EvalPath(pre_graph, session[i].path)
            /\ AfterExit =>
                  EvalPath(graph, session[i].path)
                      = EvalPath(pre_graph, session[i].path)

\* an active session over two paths that were bound to one function object
C2_Witness ==
    /\ lifecycle = "Active"
    /\ \E i \in Found :
          /\ ~IsDefault(session[i].record)
          /\ Overrider(i) # i
          /\ EvalPath(graph, session[i].path) = session[Overrider(i)].copy

InSeq(x, seq) == \E k \in 1..Len(seq) : seq[k] = x

\* C7: a resolved method path that its class only inherits is an addition:
\* after enter the class has its own attribute bound to the replacement,
\* after exit it has no own attribute and the lookup falls back to the
\* inherited method; the base class's method is not touched by it (it
\* changes only when the base class's path is itself resolved).
C7_AdditionDeletedOnExit ==
    \A i \in Found :
        (IsClassPath(session[i].path) /\ pre_graph[session[i].path] = Absent) =>
            /\ session[i].addition
            /\ lifecycle = "Active" =>
                  /\ graph[session[i].path] = session[i].copy
                  /\ InSeq(session[i].path, additional_functions)
            /\ AfterExit =>
                  /\ graph[session[i].path] = Absent
                  /\ EvalPath(graph, session[i].path) = pre_graph["Base.m"]
            /\ ((lifecycle = "Active" \/ AfterExit)
                  /\ \A j \in Found : session[j].path # "Base.m") =>
                  graph["Base.m"] = pre_graph["Base.m"]

\* a session that added the inherited method has been closed
C7_Witness ==
    /\ AfterExit
    /\ \E i \in Found :
          /\ session[i].path = "Derived.m"
          /\ session[i].addition
          /\ graph["Derived.m"] = Absent
          /\ session[i].copy # Absent

\* C8 as stated: exit on an Inactive rewriter raises no error, logs a
\* warning, removes no allowlist entry and leaves the rewriter Inactive.
C8_Original ==
    (last.op = "exit" /\ last.from = "Inactive") =>
        /\ last.raised = ""
        /\ last.warnings # <<>>
        /\ wrapped_fns_to_patch = last.before
        /\ lifecycle = "Inactive"

(* ======================== properties of get_context ==================== *)
\* a call without a key whose calling function was found
NoKeyCall == last.op = "get_context()" /\ last.caller # Absent

KeyCall == last.op = "get_context(key)"

\* the ContextCallers under the looked-up key whose func is the caller
Matching ==
    {k \in 1..Len(ContextsOf(last.key)) :
        callers[ContextsOf(last.key)[k]].func = last.caller}

\* C9 as stated: without a key the qualified name of the caller must map to
\* exactly one ContextCaller, which is returned; none or several is an
\* assertion failure.
C9_Original ==
    NoKeyCall =>
        IF Len(ContextsOf(last.key)) = 1
        THEN last.raised = "" /\ last.ctx = ContextsOf(last.key)[1]
        ELSE last.raised = "AssertionError"

\* C9 as amended: without a key the call returns the ContextCaller under
\* the caller's qualified name whose func is the caller, however many are
\* listed there; when none is, it logs a warning and returns None.  It does
\* not fail an assertion.
C9_NoKeyMatchesCaller ==
    NoKeyCall =>
        /\ last.raised = ""
        /\ IF Matching = {}
           THEN last.ctx = 0 /\ Len(last.warnings) = 1
           ELSE /\ last.ctx = ContextsOf(last.key)[MaxOf(Matching)]
                /\ last.warnings = <<>>

\* two ContextCallers under the caller's qualified name, the caller's own
\* is returned
C9_Witness ==
    /\ NoKeyCall
    /\ Len(ContextsOf(last.key)) = 2
    /\ last.ctx # 0
    /\ callers[last.ctx].func = last.caller

\* C10 as stated: with a key the call never raises; when no ContextCaller
\* is under the key (unknown key, Inactive session) it logs a warning and
\* returns None.
C10_Original ==
    KeyCall =>
        /\ last.raised = ""
        /\ Len(ContextsOf(last.key)) = 0 =>
              last.ctx = 0 /\ last.warnings # <<>>

\* C10 as amended: with a key the call returns the only ContextCaller
\* under the key; when none or several are under it (unknown key, Inactive
\* session, one replacement used for several paths) it fails an assertion
\* and logs nothing.
C10_KeyNeedsSingleContext ==
    KeyCall =>
        IF Len(ContextsOf(last.key)) = 1
        THEN /\ last.raised = ""
             /\ last.ctx = ContextsOf(last.key)[1]
             /\ last.warnings = <<>>
        ELSE /\ last.raised = "AssertionError"
             /\ last.warnings = <<>>

\* the key is unknown to an Inactive rewriter: assertion failure
C10_Witness ==
    /\ KeyCall
    /\ lifecycle = "Inactive"
    /\ ContextsOf(last.key) = <<>>
    /\ last.raised = "AssertionError"

(* ================== properties of the ContextCaller =================== *)
\* enter has just returned
Entered == last.op = "enter" /\ last.raised = ""

\* the ContextCaller built for the i-th resolved entry
CallerOf(i) == callers[session[i].ctx]

\* C11 as stated: the metadata of a ContextCaller is the union of the
\* record's registration-time metadata and the keyword arguments of enter,
\* and a name present in both carries the value passed to enter.
C11_Original ==
    Entered =>
        \A i \in Found : \A n \in MetaNames :
            CallerOf(i).kwargs[n] =
                IF last.kwargs[n] # NoValue THEN last.kwargs[n]
                ELSE session[i].record.kwargs[n]

\* C11 as amended: the metadata of a ContextCaller is the union of the
\* record's registration-time metadata and the keyword arguments of enter,
\* and a name present in both carries the registration-time value.
C11_RegistrationOnTop ==
    Entered =>
        \A i \in Found : \A n \in MetaNames :
            CallerOf(i).kwargs[n] =
                IF session[i].record.kwargs[n] # NoValue
                THEN session[i].record.kwargs[n]
                ELSE last.kwargs[n]

\* k1 was given at registration and at enter, k2 at enter only: the
\* ContextCaller carries the registered k1 and the k2 of enter
C11_Witness ==
    /\ Entered
    /\ \E i \in Found :
          /\ session[i].record.kwargs["k1"] = "reg"
          /\ last.kwargs["k1"] = "call"
          /\ CallerOf(i).kwargs["k1"] = "reg"
          /\ CallerOf(i).kwargs["k2"] = "call"

\* the resolved entries of the session for the path of the latest call
EntriesAt(path) == {i \in Found : session[i].path = path}

Resolved == last.op = "enter" /\ last.raised # "KeyError"

Snapshots(path) ==
    {k \in 1..Len(origin_functions) : origin_functions[k].func_path = path}

\* C12: a resolved path that names nothing in the live graph does not make
\* enter raise: a warning is logged for it, it gets no snapshot, no
\* ContextCaller and no write, and every other resolved path whose target
\* exists is substituted.
C12_MissingTargetSkipped ==
    Resolved =>
        /\ \A i \in 1..Len(session) :
              ~session[i].found =>
                  /\ \E w \in 1..Len(last.warnings) :
                        last.warnings[w] = [kind |-> "Can not find",
                                            path |-> session[i].path]
                  /\ Snapshots(session[i].path) = {}
                  /\ session[i].ctx = 0
                  /\ func_contexts[session[i].path] = <<>>
                  /\ graph[session[i].path] = Absent
        /\ (\A k \in 1..Len(last.records) :
                IsFunction(last.records[k].record.object)) =>
              /\ last.raised = ""
              /\ Len(session) = Len(last.records)
              /\ \A j \in Found :
                    /\ EvalPath(graph, session[j].path).gen = enter_count
                    /\ Snapshots(session[j].path) # {}

\* the missing path was resolved first and skipped, the path after it was
\* substituted
C12_Witness ==
    /\ Resolved /\ last.raised = "" /\ lifecycle = "Active"
    /\ Len(session) = 2
    /\ ~session[1].found
    /\ session[2].found
    /\ EvalPath(graph, session[2].path) = session[2].copy

\* C20: enter writes no path before the snapshot and the ContextCaller of
\* every resolved path are made: each snapshot holds the callable the path
\* was bound to when enter was called, and an error raised while the
\* records are resolved or the snapshots and ContextCallers are built
\* leaves every path bound as it was.
C20_TwoPhase ==
    last.op = "enter" =>
        /\ Resolved =>
              \A k \in 1..Len(origin_functions) :
                  origin_functions[k].origin_func
                      = EvalPath(pre_graph, origin_functions[k].func_path)
        /\ last.raised # "" => graph = pre_graph

\* two paths bound to one function were substituted in one enter: both
\* snapshots hold that function
C20_Witness ==
    /\ last.op = "enter" /\ last.raised = ""
    /\ Len(origin_functions) = 2
    /\ origin_functions[1].func_path # origin_functions[2].func_path
    /\ origin_functions[1].origin_func = origin_functions[2].origin_func
    /\ graph # pre_graph

\* a replacement that cannot be copied raised after the snapshot of an
\* earlier path was taken, and no path was written
C20_WitnessError ==
    /\ last.op = "enter" /\ last.raised = "AttributeError"
    /\ Len(origin_functions) = 2
    /\ graph = pre_graph

(* ===================== properties of a second enter =================== *)
\* the warnings of the resolution and of the location of the targets
EnterWarnings == {"multiple default", "multiple valid", "Can not find"}

\* enter was called on an Active rewriter
SecondEnter == last.op = "enter" /\ last.from = "Active"

\* C18: enter on an Active rewriter raises nothing and logs nothing about
\* the open session; its snapshots, addition list and ContextCaller index
\* replace those of the first session and are taken from the graph the
\* first enter left, so after enter; enter; exit a path substituted by both
\* is bound to a replacement made by the first enter, not to the callable
\* bound before it.
C18_SecondEnterOverwrites ==
    /\ SecondEnter =>
          /\ last.raised = ""
          /\ \A w \in 1..Len(last.warnings) : last.warnings[w].kind \in EnterWarnings
          /\ Len(origin_functions) = Cardinality(Found)
          /\ \A k \in 1..Len(origin_functions) :
                origin_functions[k].origin_func
                    = EvalPath(pre_graph, origin_functions[k].func_path)
          /\ \A k \in 1..Len(additional_functions) :
                pre_graph[additional_functions[k]] = Absent
          /\ \A i \in Found :
                /\ session[i].copy.gen = enter_count
                /\ EvalPath(graph, session[i].path).gen = enter_count
          /\ \A key \in ContextKeys : \A c \in 1..Len(func_contexts[key]) :
                callers[func_contexts[key][c]].func.gen = enter_count
    /\ AfterExit =>
          \A k \in 1..Len(origin_functions) :
              origin_functions[k].origin_func.gen > 0 =>
                  /\ EvalPath(graph, origin_functions[k].func_path)
                        = origin_functions[k].origin_func
                  /\ origin_functions[k].origin_func.gen < enter_count

\* enter; enter; exit has left a path bound to the first enter's copy
C18_Witness ==
    /\ AfterExit
    /\ enter_count = 2
    /\ \E k \in 1..Len(origin_functions) :
          /\ origin_functions[k].origin_func.gen = 1
          /\ graph[origin_functions[k].func_path]
                = origin_functions[k].origin_func
          /\ graph[origin_functions[k].func_path].path
                = origin_functions[k].func_path

(* ==================== properties of registration ====================== *)
\* C13 as stated: a registration with an unknown backend token or an
\* unknown IR token fails, so no decorator is returned for one and no
\* record carries a checker that requires one.
C13_Original ==
    /\ \A d \in 1..Len(decorators) :
          /\ decorators[d].backend \in BackendTokens
          /\ decorators[d].ir \in IRs
    /\ \A p \in AllPaths : \A i \in 1..Len(rewrite_records[p]) :
          \A j \in 1..Len(CheckersOf(rewrite_records[p][i])) :
              LET c == CheckersOf(rewrite_records[p][i])[j]
              IN /\ c.kind = "backend" => c.required \in BackendTokens
                 /\ c.kind = "ir" => c.required \in IRs

\* C16: applying a decorator returns the callable it was given and appends
\* one record carrying that callable at the end of the candidate list of
\* the decorator's path, leaving the records already there and the lists
\* of the other paths as they were; register_object alone adds nothing.
C16_DecoratorAppendsOne ==
    [][/\ last'.op = "decorator" =>
             \E d \in 1..Len(decorators) :
                 rewrite_records' =
                     [rewrite_records EXCEPT ![decorators[d].name] =
                         Append(@, [object |-> last'.result.of,
                                    checkers |-> decorators[d].extra_checkers,
                                    kwargs |-> decorators[d].kwargs])]
       /\ last'.op = "register_object" =>
             /\ rewrite_records' = rewrite_records
             /\ record_keys' = record_keys]_vars

\* a decorator was applied to a path that had a record already, while
\* another path has records too
C16_Witness ==
    /\ last.op = "decorator"
    /\ \E p \in AllPaths :
          /\ Len(rewrite_records[p]) >= 2
          /\ rewrite_records[p][Len(rewrite_records[p])].object = last.result.of
          /\ \E q \in AllPaths \ {p} : rewrite_records[q] # <<>>

\* the position of a path in the registry: the order of first registration
KeyIndex(p) == CHOOSE k \in 1..Len(record_keys) : record_keys[k] = p

\* C19: in the list returned by get_records(E) every entry resolved to a
\* default candidate precedes every entry resolved to a checker-bearing
\* candidate, and within each group the entries follow the order in which
\* their paths were first registered.
C19_DefaultsFirst ==
    Returned =>
        \A a \in 1..Len(last.records) : \A b \in 1..Len(last.records) :
            a < b =>
                /\ ~(~IsDefault(last.records[a].record)
                       /\ IsDefault(last.records[b].record))
                /\ IsDefault(last.records[a].record)
                       = IsDefault(last.records[b].record) =>
                      KeyIndex(last.records[a].path)
                          < KeyIndex(last.records[b].path)

\* the path registered first is resolved to a checker-bearing candidate
\* and is listed after the default of the path registered second
C19_Witness ==
    /\ Returned
    /\ Len(last.records) = 2
    /\ IsDefault(last.records[1].record)
    /\ ~IsDefault(last.records[2].record)
    /\ KeyIndex(last.records[2].path) < KeyIndex(last.records[1].path)

(* =================== properties of the version checker ================= *)
\* the release a version string of the model denotes
ReleaseOf(str) ==
    CASE str = V_1_7_9 -> <<1, 7, 9>>
      [] str = V_1_8_0 -> <<1, 8, 0>>
      [] str = V_1_9 -> <<1, 9>>
      [] str = V_1_9_0 -> <<1, 9, 0>>
      [] str = V_1_10 -> <<1, 10>>
      [] str = V_1_10_0 -> <<1, 10, 0>>
      [] str = V_1_10_0_1 -> <<1, 10, 0, 1>>
      [] str = V_1_11_0 -> <<1, 11, 0>>
      [] str = V_2 -> <<2>>

\* release a precedes release b: at the first component where they differ
\* a has the smaller number (missing components are zero)
Precedes(a, b) ==
    \E i \in 1..4 :
        /\ Component(a, i) < Component(b, i)
        /\ \A j \in 1..(i - 1) : Component(a, j) = Component(b, j)

VersionCall == last.op = "LibVersionChecker.check" /\ last.reported # KeyMissing

WithinBounds ==
    /\ last.checker.min_version # NoneValue =>
          ~Precedes(ReleaseOf(last.reported), ReleaseOf(last.checker.min_version))
    /\ last.checker.max_version # NoneValue =>
          ~Precedes(ReleaseOf(last.checker.max_version), ReleaseOf(last.reported))

\* C14: the version check raises nothing and returns true iff the library
\* is reported present and its parsed version v satisfies min <= v <= max,
\* both bounds inclusive, an omitted bound imposing no constraint; it
\* returns false when the library is reported absent.
C14_VersionRange ==
    VersionCall =>
        /\ last.raised = ""
        /\ last.valid \in {"true", "false"}
        /\ last.valid = "true" <=> (last.reported # NoneValue /\ WithinBounds)

\* 1.9.0 lies between 1.8.0 and 1.10.0, which the order of the strings
\* does not show
C14_Witness ==
    /\ VersionCall
    /\ last.reported = V_1_9_0
    /\ last.checker.min_version = V_1_8_0
    /\ last.checker.max_version = V_1_10_0
    /\ last.valid = "true"

(* ===================== properties of remove_record ==================== *)
\* what a record holds: the payload, the checkers, the keyword arguments
Content(rec) ==
    [object |-> rec.object, checkers |-> checker_lists[rec.checkers],
     kwargs |-> rec.kwargs]

\* the records of a path that the call is to leave: another payload, or
\* the filter returned true
RECURSIVE Survivors(_, _)
Survivors(key, i) ==
    IF i > Len(last.table[key]) THEN <<>>
    ELSE IF last.table[key][i].object = last.result.of
            /\ ~(last.filter # "none"
                  /\ filter_cb(last.filter, last.table, last.keys,
                               checker_lists, key, i))
    THEN Survivors(key, i + 1)
    ELSE <<Content(last.table[key][i])>> \o Survivors(key, i + 1)

\* C15 as stated: remove_record(obj, filter_cb) leaves, for every path,
\* the records with another payload and those for which filter_cb returns
\* true, in their order, and removes a path whose list becomes empty.
C15_Original ==
    last.op = "remove_record" =>
        /\ \A p \in AllPaths :
              /\ Len(rewrite_records[p]) = Len(Survivors(p, 1))
              /\ \A i \in 1..Len(rewrite_records[p]) :
                    Content(rewrite_records[p][i]) = Survivors(p, i)[1]
        /\ record_keys = SelectSeq(last.keys, LAMBDA k : Survivors(k, 1) # <<>>)

(* ================ properties of the ContextCaller index =============== *)
\* C23: while the rewriter is Active every resolved path whose target
\* exists has exactly one ContextCaller, listed under the function path
\* and under the qualified name of its replacement, and a path whose
\* target is missing has none; while the rewriter is Inactive (before the
\* first enter, after an exit) the index holds no ContextCaller.
C23_IndexFollowsLifecycle ==
    /\ lifecycle = "Active" =>
          /\ Len(callers) = Cardinality(Found)
          /\ \A i \in 1..Len(session) :
                IF session[i].found
                THEN /\ func_contexts[session[i].path] = <<session[i].ctx>>
                     /\ session[i].ctx \in 1..Len(callers)
                     /\ InSeq(session[i].ctx,
                              func_contexts[get_func_qualname(session[i].copy)])
                ELSE func_contexts[session[i].path] = <<>>
          /\ \A key \in ContextKeys : \A c \in 1..Len(func_contexts[key]) :
                \E i \in Found :
                    /\ func_contexts[key][c] = session[i].ctx
                    /\ key \in {session[i].path,
                                get_func_qualname(session[i].copy)}
    /\ lifecycle = "Inactive" =>
          \A key \in ContextKeys : func_contexts[key] = <<>>

\* one replacement was resolved for two paths: each path lists its own
\* ContextCaller, the qualified name of the replacement lists both
C23_Witness ==
    /\ lifecycle = "Active"
    /\ Cardinality(Found) = 2
    /\ \A i \in Found :
          /\ func_contexts[session[i].path] = <<session[i].ctx>>
          /\ Len(func_contexts[get_func_qualname(session[i].copy)]) = 2

(* ================= properties of a partly failed enter ================ *)
\* enter raised while writing its substitutions
PartialEnter == last.op = "enter" /\ last.raised = "TypeError"

\* the resolved entry whose write raised: the first whose path cannot be
\* assigned
FailedAt == MinOf({i \in Found : ~Writable(session[i].path)})

\* C21: enter does not roll back: when the k-th substitution raises, the
\* error reaches the caller, the paths of the k-1 substitutions before it
\* stay bound to replacements of this enter, and the k-th and later
\* substitutions are not written.
C21_NoRollback ==
    PartialEnter =>
        \A i \in Found :
            IF i < FailedAt
            THEN /\ EvalPath(graph, session[i].path).gen = enter_count
                 /\ graph[session[i].path] # pre_graph[session[i].path]
            ELSE graph[session[i].path] # session[i].copy

\* the second substitution raised and the first one is in place
C21_Witness ==
    /\ PartialEnter
    /\ FailedAt = 2
    /\ graph[session[1].path] = session[1].copy
    /\ graph # pre_graph

\* exit was called after an enter that raised while writing
ExitAfterPartial ==
    /\ last.op = "exit" /\ last.from = "Broken"
    /\ \E i \in Found : ~Writable(session[i].path)

\* C29 as stated: after an enter that raised while writing its
\* substitutions, exit completes without error and leaves every resolved
\* path bound to the callable it had before enter, an addition path being
\* absent from its class again.
C29_Original ==
    ExitAfterPartial =>
        /\ last.raised = ""
        /\ \A i \in Found :
              /\ EvalPath(graph, session[i].path)
                    = EvalPath(pre_graph, session[i].path)
              /\ session[i].addition => graph[session[i].path] = Absent

(* ================= properties of the reference repair ================= *)
\* C24: throughout an Active session every snapshot and the origin_func
\* of every ContextCaller refer to the callable that was bound at the path
\* when that enter was called, also after the repair made for any path
\* (another path bound to the same function included): origin_func is not
\* the callable installed at the path and not a copy made by this enter.
C24_OriginFuncKept ==
    lifecycle = "Active" =>
        /\ \A k \in 1..Len(origin_functions) :
              origin_functions[k].origin_func
                  = EvalPath(pre_graph, origin_functions[k].func_path)
        /\ \A i \in Found :
              /\ CallerOf(i).origin_func = EvalPath(pre_graph, session[i].path)
              /\ CallerOf(i).origin_func # EvalPath(graph, session[i].path)
              /\ CallerOf(i).origin_func.gen < enter_count

\* two paths bound to one function were substituted: the repair made for
\* the second path rewrote the func of the first ContextCaller, and both
\* origin_func still refer to the original
C24_Witness ==
    /\ lifecycle = "Active"
    /\ Cardinality(Found) = 2
    /\ CallerOf(1).func # session[1].copy
    /\ CallerOf(1).origin_func = CallerOf(2).origin_func
    /\ CallerOf(1).origin_func = Fn("F")
    /\ origin_functions[1].origin_func = Fn("F")

\* the slots, other than the path itself, that referred to the function
\* bound at the path of the i-th resolved entry when enter was called
Referred(i) ==
    {h \in Slots \ {session[i].path} :
        pre_graph[h] = EvalPath(pre_graph, session[i].path)}

\* a slot of a mutable sequence, or a mapping entry that is not under the
\* key origin_func
Repairable(h) ==
    \/ ContainerOf(h) = "list"
    \/ ContainerOf(h) = "dict" /\ SlotKey(h) # "origin_func"

\* the slots a session may have written: the resolved paths, and the
\* repairable slots that referred to the function of a resolved
\* module-level path
MayChange ==
    {session[i].path : i \in Found}
    \cup UNION {{h \in Referred(i) : Repairable(h)} :
                  i \in {j \in Found : ~IsClassPath(session[j].path)}}

\* C25 as stated: for a module-level target every list slot and every
\* mapping entry not under origin_func that referred to the old function
\* refers to the path's replacement after enter, and to the original
\* again after exit; for a method target only the path is written.
C25_Original ==
    /\ lifecycle = "Active" =>
          /\ \A i \in Found :
                ~IsClassPath(session[i].path) =>
                    \A h \in Referred(i) :
                        Repairable(h) => graph[h] = session[i].copy
          /\ \A h \in Slots \ MayChange : graph[h] = pre_graph[h]
    /\ AfterExit => \A h \in Slots : graph[h] = pre_graph[h]

\* C25 as amended: for a module-level target every list slot and every
\* mapping entry not under origin_func that referred to the old function
\* refers after enter to the callable the path is bound to: the path's
\* replacement, or that of the last resolved module-level path that was
\* bound to the same function; after exit they refer to the original
\* again; for a method target only the path is written.
C25_HoldersFollowPath ==
    /\ lifecycle = "Active" =>
          /\ \A i \in Found :
                ~IsClassPath(session[i].path) =>
                    \A h \in Referred(i) :
                        Repairable(h) =>
                            /\ graph[h] = session[Overrider(i)].copy
                            /\ graph[h] = EvalPath(graph, session[i].path)
          /\ \A h \in Slots \ MayChange : graph[h] = pre_graph[h]
    /\ AfterExit => \A h \in Slots : graph[h] = pre_graph[h]

\* mod.f and mod.g named one function and both were substituted: the list
\* and the dictionary entry under k refer to the replacement of the later
\* path, the entry under origin_func and the tuple to the original
C25_Witness ==
    /\ lifecycle = "Active"
    /\ \E i \in Found :
          /\ Overrider(i) # i
          /\ graph["holder_list[0]"] = session[Overrider(i)].copy
          /\ graph["holder_dict['k']"] = session[Overrider(i)].copy
    /\ graph["holder_dict['origin_func']"] = Fn("F")
    /\ graph["holder_tuple[0]"] = Fn("F")

(* =================== properties of the allowlist ====================== *)
\* exit has just closed an Active session
ExitActive == last.op = "exit" /\ last.from = "Active" /\ last.raised = ""

\* the number of entries the latest enter appended to the allowlist
Appended == Len(enter_wrapped.after) - Len(enter_wrapped.before)

\* C22 as stated: exit removes from the tail of the allowlist exactly as
\* many entries as the matching enter appended, whatever other code
\* appended or removed in between; when nothing else changed the list,
\* the allowlist after exit is the allowlist before enter.
C22_Original ==
    ExitActive =>
        /\ Len(last.before) >= Appended
        /\ wrapped_fns_to_patch
              = SubSeq(last.before, 1, Len(last.before) - Appended)
        /\ last.before = enter_wrapped.after =>
              wrapped_fns_to_patch = enter_wrapped.before

(* ================== properties of duplicate defaults ================== *)
\* the environments in which no checker of the registry can raise: both
\* keys are there, or no record has a checker
CannotRaise ==
    \/ last.env \in FullEnvs
    \/ \A p \in AllPaths : \A i \in 1..Len(rewrite_records[p]) :
          IsDefault(rewrite_records[p][i])

\* C26: two or more default candidates for one path are registered
\* without error; get_records then raises nothing, emits a warning for
\* the path, and when the default applies (no checker-bearing candidate
\* is valid) the path is resolved to the default registered first.
C26_FirstDefaultWins ==
    /\ last.op = "decorator" => last.raised = ""
    /\ (last.op = "get_records" /\ CannotRaise) =>
          \A p \in AllPaths :
              Cardinality(DefaultIdx(p)) >= 2 =>
                  /\ last.raised = ""
                  /\ \E w \in WarningsOf(p) :
                        last.warnings[w].kind = "multiple default"
                  /\ ValidIdx(p, last.env) = {} =>
                        /\ Cardinality(EntriesOf(p)) = 1
                        /\ \A k \in EntriesOf(p) :
                              last.records[k].idx = MinOf(DefaultIdx(p))

\* a checker-bearing candidate was registered first and is not valid, two
\* defaults follow it: the first of them is returned, with a warning
C26_Witness ==
    /\ Returned
    /\ \E p \in AllPaths :
          /\ Cardinality(DefaultIdx(p)) = 2
          /\ MinOf(DefaultIdx(p)) = 2
          /\ ValidIdx(p, last.env) = {}
          /\ \E k \in EntriesOf(p) : last.records[k].idx = 2
          /\ Cardinality(WarningsOf(p)) = 1

(* ================== properties of the checker lists =================== *)
\* the decorator that made a record: the one whose list the record holds
MadeBy(rec) ==
    CHOOSE d \in 1..Len(decorators) :
        decorators[d].extra_checkers = rec.checkers

\* C27 as stated: the checker list of every record holds the
\* extra_checkers supplied to its register call followed by the implicit
\* backend and IR checkers of that call, whatever was registered later.
C27_Original ==
    \A p \in AllPaths : \A i \in 1..Len(rewrite_records[p]) :
        LET rec == rewrite_records[p][i]
            dec == decorators[MadeBy(rec)]
        IN CheckersOf(rec)
               = dec.supplied \o ImplicitCheckers(dec.backend, dec.ir)

(* ================== properties of missing keys ======================== *)
\* C28 as stated: resolution is total: get_records, enter and the version
\* check raise nothing for any environment, one without the backend key,
\* the ir key or the key of the library included.
C28_Original ==
    last.op \in {"get_records", "enter", "LibVersionChecker.check"} =>
        last.raised # "KeyError"

====
